---- MODULE Spec2Model ----
(***************************************************************************)
(* TodoCLI: the task Manager (internal/todo), the Task entity and the JSON *)
(* file storage (storage), as a state machine.  One Manager works against  *)
(* one storage path; the storage file and its ".backup" sibling are part   *)
(* of the state.                                                           *)
(***************************************************************************)
EXTENDS Integers, Sequences, FiniteSets, TLC

\* ------------------------------------------------------------------ bounds
\* AddTask creates tasks while nextID is below this cap.
MaxNextID == 2
\* The wall clock runs from 1 to MaxTime.
MaxTime == 2
\* The storage documents LoadTasks is applied to hold up to MaxDocLen tasks.
MaxDocLen == 2
\* The collections ListTasks is applied to hold up to MaxListLen tasks, and
\* one collection is longer than what sort.Slice sorts by insertion.
MaxListLen == 3

\* The backups one run writes.
MaxBackups == 2

\* The I/O errors of one run.
MaxFaults == 1

\* -------------------------------------------------------------- input sets
\* The absent optional value (a nil *time.Time, a nil *Task).
None == <<>>

Some(v) == <<v>>

PriorityLow == "low"

PriorityMedium == "medium"

PriorityHigh == "high"

\* The arguments AddTask is called with.  A title is a sequence of characters
\* and " " is the white space; the priority "" stands for "not given" and
\* "urgent" is not a level; the due date is None or a time.
AddArgs ==
  { [ title |-> <<>>,              priority |-> "",           due |-> None ],
    [ title |-> <<" ">>,           priority |-> PriorityHigh, due |-> Some(1) ],
    [ title |-> <<"a">>,           priority |-> "urgent",     due |-> None ],
    [ title |-> <<" ", "B", " ">>, priority |-> "",           due |-> None ],
    [ title |-> <<"a">>,           priority |-> PriorityLow,  due |-> Some(1) ] }

\* The ids GetTask, CompleteTask and DeleteTask are called with.
IdArgs == (0 - 1) .. MaxNextID

\* ------------------------------------------------------------ strings
RECURSIVE TrimLeft(_)
TrimLeft(s) ==
  IF s = <<>> THEN <<>>
  ELSE IF Head(s) = " " THEN TrimLeft(Tail(s)) ELSE s

RECURSIVE TrimRight(_)
TrimRight(s) ==
  IF s = <<>> THEN <<>>
  ELSE IF s[Len(s)] = " " THEN TrimRight(SubSeq(s, 1, Len(s) - 1)) ELSE s

\* strings.TrimSpace
TrimSpace(s) == TrimRight(TrimLeft(s))

\* ------------------------------------------------------------ Task entity
NewTask(id, title, t) ==
  [ ID        |-> id,
    Title     |-> title,
    Completed |-> FALSE,
    DueDate   |-> None,
    Priority  |-> PriorityMedium,
    CreatedAt |-> t,
    UpdatedAt |-> t ]

\* Fault: the time is stored in the creation stamp.
Complete_StampsCreatedAt(task, t) ==
  [task EXCEPT !.Completed = TRUE, !.CreatedAt = t]

Complete(task, t) ==
  [task EXCEPT !.Completed = TRUE, !.UpdatedAt = t]

SetPriority(task, priority, t) ==
  [task EXCEPT !.Priority = priority, !.UpdatedAt = t]

SetDueDate(task, dueDate, t) ==
  [task EXCEPT !.DueDate = Some(dueDate), !.UpdatedAt = t]

\* Fault: the completed flag is not looked at.
IsOverdue_IgnoresCompleted(task, t) ==
  IF task.DueDate = None THEN FALSE
  ELSE t > task.DueDate[1]

IsOverdue(task, t) ==
  IF task.DueDate = None \/ task.Completed THEN FALSE
  ELSE t > task.DueDate[1]

\* Fault: every priority string is taken for a level.
ValidatePriority_AcceptAll(priority) == TRUE

ValidatePriority(priority) ==
  priority \in { PriorityLow, PriorityMedium, PriorityHigh }

\* ------------------------------------------------------------ JSON document
\* A JSON object is a function from its keys; a key that is missing from the
\* object leaves the Go field at its zero value.
Field(obj, key, zero) == IF key \in DOMAIN obj THEN obj[key] ELSE zero

\* encoding/json of one storage.Task; due_date has omitempty.
MarshalTask(st) ==
  LET base == [ id         |-> st.ID,
                title      |-> st.Title,
                completed  |-> st.Completed,
                priority   |-> st.Priority,
                created_at |-> st.CreatedAt,
                updated_at |-> st.UpdatedAt ]
  IN  IF st.DueDate = None THEN base
      ELSE base @@ [ due_date |-> st.DueDate[1] ]

UnmarshalTask(obj) ==
  [ ID        |-> Field(obj, "id", 0),
    Title     |-> Field(obj, "title", <<>>),
    Completed |-> Field(obj, "completed", FALSE),
    DueDate   |-> IF "due_date" \in DOMAIN obj THEN Some(obj["due_date"]) ELSE None,
    Priority  |-> Field(obj, "priority", ""),
    CreatedAt |-> Field(obj, "created_at", 0),
    UpdatedAt |-> Field(obj, "updated_at", 0) ]

\* json.MarshalIndent of a storage.TaskList.
MarshalTaskList(sts, nid) ==
  [ tasks       |-> [i \in 1 .. Len(sts) |-> MarshalTask(sts[i])],
    next_id     |-> nid,
    last_update |-> "user" ]

\* json.Unmarshal into a storage.TaskList.
UnmarshalTaskList(doc) ==
  LET objs == Field(doc, "tasks", <<>>)
  IN  [ Tasks  |-> [i \in 1 .. Len(objs) |-> UnmarshalTask(objs[i])],
        NextID |-> Field(doc, "next_id", 0) ]

\* ------------------------------------------------------------ files
\* A file is absent, zero-length, bytes that are not the document shape, or
\* a JSON document.
NoFile == [ kind |-> "absent", doc |-> <<>> ]

EmptyFile == [ kind |-> "empty", doc |-> <<>> ]

GarbageFile == [ kind |-> "garbage", doc |-> <<>> ]

JsonFile(doc) == [ kind |-> "json", doc |-> doc ]

\* ------------------------------------------------------------ FileStorage
NoErr == "none"

ErrIO == "io failure"

ErrParse == "failed to parse JSON"

ErrNoFile == "no tasks file to backup"

ErrEmptyTitle == "task title cannot be empty"

ErrInvalidPriority == "invalid priority"

ErrInvalidID == "invalid task ID"

ErrTaskNotFound == "task not found"

ErrAlreadyCompleted == "task is already completed"

\* Fault: the loop compares with > and misses an id equal to NextID.
RECURSIVE HighestIDPlusOne_Strict(_, _)
HighestIDPlusOne_Strict(sts, nid) ==
  IF sts = <<>> THEN nid
  ELSE HighestIDPlusOne_Strict(Tail(sts),
                               IF Head(sts).ID > nid THEN Head(sts).ID + 1 ELSE nid)

\* The loop of FileStorage.LoadTasks that recomputes NextID, started at nid.
RECURSIVE HighestIDPlusOne(_, _)
HighestIDPlusOne(sts, nid) ==
  IF sts = <<>> THEN nid
  ELSE HighestIDPlusOne(Tail(sts),
                        IF Head(sts).ID >= nid THEN Head(sts).ID + 1 ELSE nid)

\* Fault: NextID is recomputed from the tasks whatever the document says.
ValidNextID_AlwaysRecompute(taskList) ==
  HighestIDPlusOne(taskList.Tasks, 1)

\* The NextID FileStorage.LoadTasks returns for a parsed TaskList.
ValidNextID(taskList) ==
  IF taskList.NextID = 0 THEN HighestIDPlusOne(taskList.Tasks, 1)
  ELSE taskList.NextID

\* Fault: a zero-length file is handed to the JSON parser, which rejects it.
FileStorageLoadTasks_EmptyIsError(file, io) ==
  IF ~io THEN [ Tasks |-> <<>>, NextID |-> 1, err |-> ErrIO ]
  ELSE IF file.kind = "absent" THEN [ Tasks |-> <<>>, NextID |-> 1, err |-> NoErr ]
  ELSE IF file.kind \in { "empty", "garbage" }
  THEN [ Tasks |-> <<>>, NextID |-> 1, err |-> ErrParse ]
  ELSE LET taskList == UnmarshalTaskList(file.doc)
       IN  [ Tasks  |-> taskList.Tasks,
             NextID |-> ValidNextID(taskList),
             err    |-> NoErr ]

\* FileStorage.LoadTasks; io = FALSE: the directory cannot be created or the
\* file cannot be read.
FileStorageLoadTasks(file, io) ==
  IF ~io THEN [ Tasks |-> <<>>, NextID |-> 1, err |-> ErrIO ]
  ELSE IF file.kind = "absent" THEN [ Tasks |-> <<>>, NextID |-> 1, err |-> NoErr ]
  ELSE IF file.kind = "empty" THEN [ Tasks |-> <<>>, NextID |-> 1, err |-> NoErr ]
  ELSE IF file.kind = "garbage" THEN [ Tasks |-> <<>>, NextID |-> 1, err |-> ErrParse ]
  ELSE LET taskList == UnmarshalTaskList(file.doc)
       IN  [ Tasks  |-> taskList.Tasks,
             NextID |-> ValidNextID(taskList),
             err    |-> NoErr ]

\* What a failed os.WriteFile leaves of a file: the file as it was (the
\* directory or the file could not be opened), or the file it created or
\* truncated on opening, empty or with a part of the data.
WriteFileLeaves(file, io) ==
  IF io THEN { file } ELSE { file, EmptyFile, GarbageFile }

\* Fault: the tasks of the file that are not written are kept after the
\* written ones instead of being replaced.
FileStorageSaveTasks_Merges(file, sts, nid, io, left) ==
  IF ~io THEN [ file |-> left, err |-> ErrIO ]
  ELSE LET doc == MarshalTaskList(sts, nid)
           old == IF file.kind = "json" /\ "tasks" \in DOMAIN file.doc
                  THEN file.doc.tasks ELSE <<>>
           kept == SelectSeq(old, LAMBDA o : \A i \in 1 .. Len(doc.tasks) : doc.tasks[i] # o)
       IN  [ file |-> JsonFile([ doc EXCEPT !.tasks = @ \o kept ]), err |-> NoErr ]

\* FileStorage.SaveTasks; io = FALSE: the directory or the file cannot be
\* written, and left is what remains of the file.
FileStorageSaveTasks(file, sts, nid, io, left) ==
  IF ~io THEN [ file |-> left, err |-> ErrIO ]
  ELSE [ file |-> JsonFile(MarshalTaskList(sts, nid)), err |-> NoErr ]

FileExists(file) == file.kind # "absent"

\* Fault: a backup that exists is not written again.
FileStorageBackupTasks_KeepsEarlier(file, bak, io, left) ==
  IF ~FileExists(file) THEN [ bak |-> bak, err |-> ErrNoFile ]
  ELSE IF ~io THEN [ bak |-> left, err |-> ErrIO ]
  ELSE [ bak |-> IF FileExists(bak) THEN bak ELSE file, err |-> NoErr ]

\* FileStorage.BackupTasks: the new content of the ".backup" file.
FileStorageBackupTasks(file, bak, io, left) ==
  IF ~FileExists(file) THEN [ bak |-> bak, err |-> ErrNoFile ]
  ELSE IF ~io THEN [ bak |-> left, err |-> ErrIO ]
  ELSE [ bak |-> file, err |-> NoErr ]

\* ------------------------------------------------------------ Manager
\* The conversions between todo.Task and storage.Task, field by field.
ToDomainTask(st) ==
  [ ID        |-> st.ID,
    Title     |-> st.Title,
    Completed |-> st.Completed,
    DueDate   |-> st.DueDate,
    Priority  |-> st.Priority,
    CreatedAt |-> st.CreatedAt,
    UpdatedAt |-> st.UpdatedAt ]

\* Fault: UpdatedAt is not copied and stays at its zero value.
ToStorageTask_NoUpdatedAt(t) ==
  [ ID        |-> t.ID,
    Title     |-> t.Title,
    Completed |-> t.Completed,
    DueDate   |-> t.DueDate,
    Priority  |-> t.Priority,
    CreatedAt |-> t.CreatedAt,
    UpdatedAt |-> 0 ]

ToStorageTask(t) ==
  [ ID        |-> t.ID,
    Title     |-> t.Title,
    Completed |-> t.Completed,
    DueDate   |-> t.DueDate,
    Priority  |-> t.Priority,
    CreatedAt |-> t.CreatedAt,
    UpdatedAt |-> t.UpdatedAt ]

\* Fault: the watermark starts at zero.
NewManager_NextIDZero == [ tasks |-> <<>>, nextID |-> 0 ]

\* A Manager value: the fields tasks and nextID.
NewManager == [ tasks |-> <<>>, nextID |-> 1 ]

\* Fault: the fields are assigned before the error is looked at.
ManagerLoadTasks_AssignsFirst(m, file, io) ==
  LET r == FileStorageLoadTasks(file, io)
  IN  [ m   |-> [ tasks  |-> [i \in 1 .. Len(r.Tasks) |-> ToDomainTask(r.Tasks[i])],
                  nextID |-> r.NextID ],
        err |-> r.err ]

\* Manager.LoadTasks on manager m: on an error m is returned as it is.
ManagerLoadTasks(m, file, io) ==
  LET r == FileStorageLoadTasks(file, io)
  IN  IF r.err # NoErr THEN [ m |-> m, err |-> r.err ]
      ELSE [ m   |-> [ tasks  |-> [i \in 1 .. Len(r.Tasks) |-> ToDomainTask(r.Tasks[i])],
                       nextID |-> r.NextID ],
             err |-> NoErr ]

\* Manager.SaveTasks on manager m.
ManagerSaveTasks(m, file, io, left) ==
  FileStorageSaveTasks(file,
                       [i \in 1 .. Len(m.tasks) |-> ToStorageTask(m.tasks[i])],
                       m.nextID, io, left)

\* The index of the first task with the given id, 0 when there is none.
RECURSIVE IndexOfID(_, _, _)
IndexOfID(ts, id, i) ==
  IF i > Len(ts) THEN 0
  ELSE IF ts[i].ID = id THEN i ELSE IndexOfID(ts, id, i + 1)

\* append(m.tasks[:i], m.tasks[i+1:]...)
RemoveAt(ts, i) == SubSeq(ts, 1, i - 1) \o SubSeq(ts, i + 1, Len(ts))

\* m.nextID++
IncrNextID(nid) == nid + 1

\* Fault: the title is stored as given, not trimmed.
BuildTask_Untrimmed(nid, title, priority, dueDate, t0, t1) ==
  LET created == NewTask(nid, title, t0)
      withPrio == IF priority # "" THEN SetPriority(created, priority, t1)
                  ELSE created
  IN  IF dueDate # None THEN SetDueDate(withPrio, dueDate[1], t1) ELSE withPrio

\* The task AddTask builds: NewTask at time t0, the setters at time t1.
BuildTask(nid, title, priority, dueDate, t0, t1) ==
  LET created == NewTask(nid, TrimSpace(title), t0)
      withPrio == IF priority # "" THEN SetPriority(created, priority, t1)
                  ELSE created
  IN  IF dueDate # None THEN SetDueDate(withPrio, dueDate[1], t1) ELSE withPrio

\* Manager.AddTask up to its call of SaveTasks: the error or the new manager
\* state, the task it would return, and whether SaveTasks is called.
AddTaskOn(m, title, priority, dueDate, t0, t1) ==
  IF TrimSpace(title) = <<>>
  THEN [ m |-> m, err |-> ErrEmptyTitle, ret |-> None, save |-> FALSE ]
  ELSE IF priority # "" /\ ~ValidatePriority(priority)
  THEN [ m |-> m, err |-> ErrInvalidPriority, ret |-> None, save |-> FALSE ]
  ELSE LET task == BuildTask(m.nextID, title, priority, dueDate, t0, t1)
       IN  [ m    |-> [ tasks  |-> Append(m.tasks, task),
                        nextID |-> IncrNextID(m.nextID) ],
             err  |-> NoErr,
             ret  |-> Some(task),
             save |-> TRUE ]

\* Fault: only negative ids are invalid.
GetTaskOn_ZeroValid(m, id) ==
  IF id < 0 THEN [ err |-> ErrInvalidID, ret |-> None ]
  ELSE LET i == IndexOfID(m.tasks, id, 1)
       IN  IF i = 0 THEN [ err |-> ErrTaskNotFound, ret |-> None ]
           ELSE [ err |-> NoErr, ret |-> Some(m.tasks[i]) ]

\* Manager.GetTask.
GetTaskOn(m, id) ==
  IF id <= 0 THEN [ err |-> ErrInvalidID, ret |-> None ]
  ELSE LET i == IndexOfID(m.tasks, id, 1)
       IN  IF i = 0 THEN [ err |-> ErrTaskNotFound, ret |-> None ]
           ELSE [ err |-> NoErr, ret |-> Some(m.tasks[i]) ]

\* Fault: a completed task is completed again instead of being rejected.
CompleteTaskOn_NoCheck(m, id, t) ==
  LET g == GetTaskOn(m, id)
      i == IndexOfID(m.tasks, id, 1)
  IN  IF g.err # NoErr
      THEN [ m |-> m, err |-> g.err, ret |-> None, save |-> FALSE ]
      ELSE [ m    |-> [m EXCEPT !.tasks[i] = Complete(m.tasks[i], t)],
             err  |-> NoErr,
             ret  |-> Some(Complete(m.tasks[i], t)),
             save |-> TRUE ]

\* Fault: the call flips the completed flag of whatever task it finds.
CompleteTaskOn_Toggle(m, id, t) ==
  LET g == GetTaskOn(m, id)
      i == IndexOfID(m.tasks, id, 1)
      flipped == [m.tasks[i] EXCEPT !.Completed = ~m.tasks[i].Completed,
                                    !.UpdatedAt = t]
  IN  IF g.err # NoErr
      THEN [ m |-> m, err |-> g.err, ret |-> None, save |-> FALSE ]
      ELSE [ m    |-> [m EXCEPT !.tasks[i] = flipped],
             err  |-> NoErr,
             ret  |-> Some(flipped),
             save |-> TRUE ]

\* Fault: a task that is completed already is saved and returned again.
CompleteTaskOn_Idempotent(m, id, t) ==
  LET g == GetTaskOn(m, id)
      i == IndexOfID(m.tasks, id, 1)
  IN  IF g.err # NoErr
      THEN [ m |-> m, err |-> g.err, ret |-> None, save |-> FALSE ]
      ELSE IF g.ret[1].Completed
      THEN [ m |-> m, err |-> NoErr, ret |-> g.ret, save |-> TRUE ]
      ELSE [ m    |-> [m EXCEPT !.tasks[i] = Complete(m.tasks[i], t)],
             err  |-> NoErr,
             ret  |-> Some(Complete(m.tasks[i], t)),
             save |-> TRUE ]

\* Manager.CompleteTask up to its call of SaveTasks.
CompleteTaskOn(m, id, t) ==
  LET g == GetTaskOn(m, id)
      i == IndexOfID(m.tasks, id, 1)
  IN  IF g.err # NoErr
      THEN [ m |-> m, err |-> g.err, ret |-> None, save |-> FALSE ]
      ELSE IF g.ret[1].Completed
      THEN [ m |-> m, err |-> ErrAlreadyCompleted, ret |-> None, save |-> FALSE ]
      ELSE [ m    |-> [m EXCEPT !.tasks[i] = Complete(m.tasks[i], t)],
             err  |-> NoErr,
             ret  |-> Some(Complete(m.tasks[i], t)),
             save |-> TRUE ]

\* Manager.DeleteTask up to its call of SaveTasks.
DeleteTaskOn(m, id) ==
  IF id <= 0
  THEN [ m |-> m, err |-> ErrInvalidID, ret |-> None, save |-> FALSE ]
  ELSE LET i == IndexOfID(m.tasks, id, 1)
       IN  IF i = 0
           THEN [ m |-> m, err |-> ErrTaskNotFound, ret |-> None, save |-> FALSE ]
           ELSE [ m    |-> [m EXCEPT !.tasks = RemoveAt(m.tasks, i)],
                  err  |-> NoErr,
                  ret  |-> Some(m.tasks[i]),
                  save |-> TRUE ]

\* ------------------------------------------------------------ ListTasks
\* strings.ToLower on the characters used here.
LowerChar(c) == IF c = "A" THEN "a" ELSE IF c = "B" THEN "b" ELSE c

ToLower(s) == [i \in 1 .. Len(s) |-> LowerChar(s[i])]

\* strings.Contains
Contains(s, sub) ==
  \E k \in 0 .. Len(s) - Len(sub) : SubSeq(s, k + 1, k + Len(sub)) = sub

SearchArgs == { <<>>, <<"b">> }

SortByArgs == { "", "id", "priority", "due", "created" }

\* The FilterOptions values ListTasks is called with: every status filter
\* with every sort order, and every priority filter with every search.
FilterArgs ==
  [ ShowCompleted : BOOLEAN,
    ShowPending   : BOOLEAN,
    Priority      : { "" },
    Search        : { <<>> },
    SortBy        : SortByArgs ]
  \cup
  [ ShowCompleted : { FALSE },
    ShowPending   : { FALSE },
    Priority      : { "", PriorityLow, PriorityMedium, PriorityHigh },
    Search        : SearchArgs,
    SortBy        : { "" } ]

\* Fault: the search compares the title and the search text as they are.
PassesFilter_CaseSensitive(task, filter) ==
  /\ (filter.ShowCompleted /\ ~filter.ShowPending) => task.Completed
  /\ (filter.ShowPending /\ ~filter.ShowCompleted) => ~task.Completed
  /\ filter.Priority # "" => task.Priority = filter.Priority
  /\ filter.Search # <<>> => Contains(task.Title, filter.Search)

\* The body of the loop of ListTasks: does the task pass every filter.
PassesFilter(task, filter) ==
  /\ (filter.ShowCompleted /\ ~filter.ShowPending) => task.Completed
  /\ (filter.ShowPending /\ ~filter.ShowCompleted) => ~task.Completed
  /\ filter.Priority # "" => task.Priority = filter.Priority
  /\ filter.Search # <<>> => Contains(ToLower(task.Title), ToLower(filter.Search))

RECURSIVE FilterTasks(_, _)
FilterTasks(ts, filter) ==
  IF ts = <<>> THEN <<>>
  ELSE IF PassesFilter(Head(ts), filter)
       THEN <<Head(ts)>> \o FilterTasks(Tail(ts), filter)
       ELSE FilterTasks(Tail(ts), filter)

\* priorityOrder[p]: a priority that is not a key of the map yields 0.
PriorityOrder(p) ==
  IF p = PriorityHigh THEN 3
  ELSE IF p = PriorityMedium THEN 2
  ELSE IF p = PriorityLow THEN 1
  ELSE 0

\* Fault: in the order by due date a task without one goes first.
Less_UndatedFirst(sortBy, x, y) ==
  IF sortBy = "priority" THEN PriorityOrder(x.Priority) > PriorityOrder(y.Priority)
  ELSE IF sortBy = "due" THEN
    IF x.DueDate = None /\ y.DueDate = None THEN x.ID < y.ID
    ELSE IF x.DueDate = None THEN TRUE
    ELSE IF y.DueDate = None THEN FALSE
    ELSE x.DueDate[1] < y.DueDate[1]
  ELSE IF sortBy = "created" THEN x.CreatedAt < y.CreatedAt
  ELSE x.ID < y.ID

\* The less functions sortTasks hands to sort.Slice.
Less(sortBy, x, y) ==
  IF sortBy = "priority" THEN PriorityOrder(x.Priority) > PriorityOrder(y.Priority)
  ELSE IF sortBy = "due" THEN
    IF x.DueDate = None /\ y.DueDate = None THEN x.ID < y.ID
    ELSE IF x.DueDate = None THEN FALSE
    ELSE IF y.DueDate = None THEN TRUE
    ELSE x.DueDate[1] < y.DueDate[1]
  ELSE IF sortBy = "created" THEN x.CreatedAt < y.CreatedAt
  ELSE x.ID < y.ID

\* sort.Slice on up to 12 elements is an insertion sort: element i sinks
\* while it is less than its left neighbour.
RECURSIVE Sink(_, _, _)
Sink(ts, j, sortBy) ==
  IF j > 1 /\ Less(sortBy, ts[j], ts[j - 1])
  THEN Sink([ts EXCEPT ![j] = ts[j - 1], ![j - 1] = ts[j]], j - 1, sortBy)
  ELSE ts

RECURSIVE InsertionSort(_, _, _)
InsertionSort(ts, i, sortBy) ==
  IF i > Len(ts) THEN ts
  ELSE InsertionSort(Sink(ts, i, sortBy), i + 1, sortBy)

\* The longest slice sort.Slice sorts by insertion alone.
maxInsertion == 12

\* sort.Slice on a longer slice partitions it around pivots and is not stable:
\* it leaves the elements in some order in which no element is less than one
\* before it.  S is the set of positions of ts not placed yet.
RECURSIVE SortedOrders(_, _, _)
SortedOrders(ts, S, sortBy) ==
  IF S = {} THEN { <<>> }
  ELSE UNION { { <<ts[i]>> \o r : r \in SortedOrders(ts, S \ { i }, sortBy) } :
               i \in { k \in S : \A j \in S : ~Less(sortBy, ts[j], ts[k]) } }

\* Manager.sortTasks: the orders the sorted slice can be in.
sortTasks(ts, sortBy) ==
  IF Len(ts) <= maxInsertion THEN { InsertionSort(ts, 2, sortBy) }
  ELSE SortedOrders(ts, 1 .. Len(ts), sortBy)

\* Manager.ListTasks: the slices it can return.
ListTasksOn(m, filter) == sortTasks(FilterTasks(m.tasks, filter), filter.SortBy)

\* Fault: ListTasks sorts m.tasks itself.
TasksAfterList_InPlace(m, filter) ==
  CHOOSE r \in sortTasks(m.tasks, filter.SortBy) : TRUE

\* What ListTasks leaves in m.tasks: the filtered tasks are appended to a new
\* slice, and that slice is sorted, so m.tasks is as before.
TasksAfterList(m, filter) == m.tasks

\* ------------------------------------------------------------ GetStats
\* The number of tasks of ts that are in the set of tasks sel.
Count(ts, sel) == Cardinality({ i \in 1 .. Len(ts) : ts[i] \in sel })

GetStatsOn(m, t) ==
  LET all == { m.tasks[i] : i \in 1 .. Len(m.tasks) }
  IN  [ total     |-> Len(m.tasks),
        completed |-> Count(m.tasks, { x \in all : x.Completed }),
        pending   |-> Count(m.tasks, { x \in all : ~x.Completed }),
        overdue   |-> Count(m.tasks, { x \in all : ~x.Completed /\ IsOverdue(x, t) }),
        high      |-> Count(m.tasks, { x \in all : x.Priority = PriorityHigh }),
        medium    |-> Count(m.tasks, { x \in all : x.Priority = PriorityMedium }),
        low       |-> Count(m.tasks, { x \in all : x.Priority = PriorityLow }) ]

\* ------------------------------------------------------------ state
VARIABLES
  tasks,     \* Manager.tasks
  nextID,    \* Manager.nextID
  disk,      \* the storage file
  backup,    \* the ".backup" file next to it
  now,       \* the wall clock read by time.Now()
  lastOp,    \* the last call: its arguments, error, result, and whether it called SaveTasks
  assigned,  \* the ids AddTask has given out since the collection was loaded
  freed,     \* the ids DeleteTask has removed since the collection was loaded
  faults,    \* the number of I/O errors the file system will still produce
  backups,   \* the number of backups the run may still write
  run,       \* the command the process was started for, and its loads and saves
  others     \* the tasks other processes have saved since the collection was loaded

vars ==
  << tasks, nextID, disk, backup, now, lastOp, assigned, freed, faults, backups,
     run, others >>

\* The outcomes of the file system calls of one storage call: TRUE, they work.
IOOutcomes == IF faults > 0 THEN BOOLEAN ELSE { TRUE }

CountIO(err) == faults' = IF err = ErrIO THEN faults - 1 ELSE faults

\* The commands of the program.
Commands == { "add", "list", "complete", "delete", "export", "backup", "ui" }

\* The Manager is called as a library: no command is running.
NoRun == [ cmd |-> "", loads |-> 0, saves |-> 0, done |-> FALSE, failed |-> "" ]

\* The program has not been started yet.
NotStarted ==
  [ cmd |-> "none", loads |-> 0, saves |-> 0, done |-> TRUE, failed |-> "" ]

\* The command line starts the process for one of the commands.
Invocations(r) ==
  IF r.cmd = "" THEN { r }
  ELSE { [ cmd |-> c, loads |-> 0, saves |-> 0, done |-> FALSE, failed |-> "" ] :
           c \in Commands }

\* The process has made a Manager call, with so many calls of LoadTasks and
\* SaveTasks of the storage; failed names the call when its SaveTasks failed.
Ran(r, loads, saves, failed) ==
  LET f == IF failed = "" THEN r.failed ELSE failed
  IN  IF r.cmd = "" THEN [ r EXCEPT !.failed = f ]
      ELSE [ r EXCEPT !.loads = @ + loads, !.saves = @ + saves, !.done = TRUE,
                      !.failed = f ]

\* The Manager value held in the variables.
manager == [ tasks |-> tasks, nextID |-> nextID ]

Op(op, id, title, priority, due, err, wrote, ret) ==
  [ op |-> op, id |-> id, title |-> title, priority |-> priority, due |-> due,
    err |-> err, wrote |-> wrote, ret |-> ret ]

\* Storage documents found at start: written by the program, written before
\* the next_id field existed, or edited by hand.
TaskObj(id, title, completed, priority, t) ==
  [ id |-> id, title |-> title, completed |-> completed, priority |-> priority,
    created_at |-> t, updated_at |-> t ]

DocWritten ==
  [ tasks       |-> << TaskObj(1, <<"a">>, FALSE, PriorityLow, 1),
                       TaskObj(2, <<"B">>, TRUE, PriorityHigh, 1) @@ [ due_date |-> 1 ] >>,
    next_id     |-> 3,
    last_update |-> "user" ]

DocNoNextID ==
  [ tasks |-> << TaskObj(2, <<"a">>, FALSE, PriorityMedium, 1) @@ [ due_date |-> 2 ] >> ]

DocStaleNextID ==
  [ tasks       |-> << TaskObj(1, <<"a">>, FALSE, PriorityMedium, 1) >>,
    next_id     |-> 1,
    last_update |-> "user" ]

DocNoIDs ==
  [ tasks       |-> << [ title |-> <<"a">>, priority |-> "urgent" ],
                       [ title |-> <<"B">>, completed |-> TRUE ] >>,
    next_id     |-> 3,
    last_update |-> "user" ]

InitFiles ==
  { NoFile, EmptyFile, GarbageFile, JsonFile(DocWritten), JsonFile(DocNoNextID),
    JsonFile(DocStaleNextID), JsonFile(DocNoIDs) }

\* The process starts: no Manager call has been made yet.  The file system
\* is reliable and no backup is written.
Init ==
  /\ tasks = NewManager.tasks
  /\ nextID = NewManager.nextID
  /\ disk \in InitFiles
  /\ backup = NoFile
  /\ now = 1
  /\ lastOp = Op("init", 0, <<>>, "", None, NoErr, FALSE, None)
  /\ assigned = <<>>
  /\ freed = {}
  /\ faults = 0
  /\ backups = 0
  /\ run = NoRun
  /\ others = {}

\* rootCmd.PersistentPreRun: a new Manager, LoadTasks, a failure is only warned.
PersistentPreRun ==
  \E io \in IOOutcomes, started \in Invocations(run) :
    LET r == ManagerLoadTasks(NewManager, disk, io)
    IN  /\ tasks' = r.m.tasks
        /\ nextID' = r.m.nextID
        /\ lastOp' = Op("start", 0, <<>>, "", None, r.err, FALSE, None)
        /\ assigned' = <<>>
        /\ freed' = {}
        /\ CountIO(r.err)
        /\ run' = [ Ran(started, 1, 0, "") EXCEPT !.done = FALSE, !.failed = "" ]
        /\ others' = {}
        /\ UNCHANGED << disk, backup, now, backups >>

\* Manager.LoadTasks on the current Manager.
LoadTasks ==
  \E io \in IOOutcomes :
    LET r == ManagerLoadTasks(manager, disk, io)
    IN  /\ tasks' = r.m.tasks
        /\ nextID' = r.m.nextID
        /\ lastOp' = Op("load", 0, <<>>, "", None, r.err, FALSE, None)
        /\ assigned' = IF r.err = NoErr THEN <<>> ELSE assigned
        /\ freed' = IF r.err = NoErr THEN {} ELSE freed
        /\ CountIO(r.err)
        /\ run' = Ran(run, 1, 0, "")
        /\ others' = IF r.err = NoErr THEN {} ELSE others
        /\ UNCHANGED << disk, backup, now, backups >>

\* Fault: the collection and next_id are put back when SaveTasks fails.
Persist_RollsBack(r, io, left, op, id, title, priority, due) ==
  LET s == IF r.save THEN ManagerSaveTasks(r.m, disk, io, left)
           ELSE [ file |-> disk, err |-> NoErr ]
      err == IF r.err # NoErr THEN r.err ELSE s.err
  IN  /\ tasks' = IF s.err # NoErr THEN tasks ELSE r.m.tasks
      /\ nextID' = IF s.err # NoErr THEN nextID ELSE r.m.nextID
      /\ disk' = s.file
      /\ lastOp' = Op(op, id, title, priority, due, err, r.save,
                      IF err = NoErr THEN r.ret ELSE None)
      /\ CountIO(err)
      /\ run' = Ran(run, 0, IF r.save THEN 1 ELSE 0,
                     IF r.save /\ s.err # NoErr THEN op ELSE "")
      /\ UNCHANGED << backups, others >>

\* The end of AddTask, CompleteTask and DeleteTask: r is the outcome up to
\* SaveTasks; SaveTasks is called when r.save, and its error replaces the result.
Persist(r, io, left, op, id, title, priority, due) ==
  LET s == IF r.save THEN ManagerSaveTasks(r.m, disk, io, left)
           ELSE [ file |-> disk, err |-> NoErr ]
      err == IF r.err # NoErr THEN r.err ELSE s.err
  IN  /\ tasks' = r.m.tasks
      /\ nextID' = r.m.nextID
      /\ disk' = s.file
      /\ lastOp' = Op(op, id, title, priority, due, err, r.save,
                      IF err = NoErr THEN r.ret ELSE None)
      /\ CountIO(err)
      /\ run' = Ran(run, 0, IF r.save THEN 1 ELSE 0,
                     IF r.save /\ s.err # NoErr THEN op ELSE "")
      /\ UNCHANGED << backups, others >>

\* Manager.AddTask; the clock is read by NewTask (now) and by the setters (t1).
AddTask ==
  \E a \in AddArgs, t1 \in now .. MaxTime, io \in IOOutcomes :
   \E left \in WriteFileLeaves(disk, io) :
    LET r == AddTaskOn(manager, a.title, a.priority, a.due, now, t1)
    IN  /\ r.save => nextID < MaxNextID
        /\ Persist(r, io, left, "add", 0, a.title, a.priority, a.due)
        /\ now' = t1
        /\ assigned' = IF r.save THEN Append(assigned, nextID) ELSE assigned
        /\ UNCHANGED << backup, freed >>

\* Manager.GetTask.
GetTask ==
  \E id \in IdArgs :
    LET r == GetTaskOn(manager, id)
    IN  /\ lastOp' = Op("get", id, <<>>, "", None, r.err, FALSE, r.ret)
        /\ run' = Ran(run, 0, 0, "")
        /\ UNCHANGED << tasks, nextID, disk, backup, now, assigned, freed,
                        faults, backups, others >>

\* Manager.CompleteTask.
CompleteTask ==
  \E id \in IdArgs, io \in IOOutcomes :
   \E left \in WriteFileLeaves(disk, io) :
    LET r == CompleteTaskOn(manager, id, now)
    IN  /\ Persist(r, io, left, "complete", id, <<>>, "", None)
        /\ UNCHANGED << backup, now, assigned, freed >>

\* Manager.DeleteTask.
DeleteTask ==
  \E id \in IdArgs, io \in IOOutcomes :
   \E left \in WriteFileLeaves(disk, io) :
    LET r == DeleteTaskOn(manager, id)
    IN  /\ Persist(r, io, left, "delete", id, <<>>, "", None)
        /\ freed' = IF r.save THEN freed \cup { id } ELSE freed
        /\ UNCHANGED << backup, now, assigned >>

\* Manager.ListTasks.
ListTasks ==
  \E filter \in FilterArgs :
    /\ tasks' = TasksAfterList(manager, filter)
    /\ lastOp' = Op("list", 0, <<>>, "", None, NoErr, FALSE, None)
    /\ run' = Ran(run, 0, 0, "")
    /\ UNCHANGED << nextID, disk, backup, now, assigned, freed, faults, backups,
                    others >>

\* Manager.GetStats.
GetStats ==
  /\ lastOp' = Op("stats", 0, <<>>, "", None, NoErr, FALSE, None)
  /\ run' = Ran(run, 0, 0, "")
  /\ UNCHANGED << tasks, nextID, disk, backup, now, assigned, freed, faults, backups,
                  others >>

\* Manager.BackupTasks.
BackupTasks ==
  \E io \in IOOutcomes :
   \E left \in WriteFileLeaves(backup, io) :
    LET r == FileStorageBackupTasks(disk, backup, io, left)
    IN  /\ r.err = NoErr => backups > 0
        /\ backup' = r.bak
        /\ backups' = IF r.err = NoErr THEN backups - 1 ELSE backups
        /\ lastOp' = Op("backup", 0, <<>>, "", None, r.err, FALSE, None)
        /\ CountIO(r.err)
        /\ run' = Ran(run, 0, 0, "")
        /\ UNCHANGED << tasks, nextID, disk, now, assigned, freed, others >>

\* Time passes between two calls.
Tick ==
  /\ now < MaxTime
  /\ now' = now + 1
  /\ lastOp' = Op("tick", 0, <<>>, "", None, NoErr, FALSE, None)
  /\ UNCHANGED << tasks, nextID, disk, backup, assigned, freed, faults, backups,
                  run, others >>

Next ==
  \/ PersistentPreRun
  \/ LoadTasks
  \/ AddTask
  \/ GetTask
  \/ CompleteTask
  \/ DeleteTask
  \/ ListTasks
  \/ GetStats
  \/ BackupTasks
  \/ Tick

Spec == Init /\ [][Next]_vars

\* ------------------------------------------------------------ LoadTasks alone
\* LoadTasks applied to every storage file of a bounded family: a document
\* with up to MaxDocLen tasks, whose ids may be anything a hand-edited file can
\* hold, and whose next_id is missing, zero or set.
DocIDs == (0 - 1) .. 2

NextIDArgs == { None, Some(0), Some(1), Some(3) }

DocTaskSeqs == UNION { [1 .. n -> DocIDs] : n \in 0 .. MaxDocLen }

DocOf(ids, nid) ==
  LET objs == [i \in 1 .. Len(ids) |-> TaskObj(ids[i], <<"a">>, FALSE, PriorityMedium, 1)]
  IN  IF nid = None THEN [ tasks |-> objs, last_update |-> "user" ]
      ELSE [ tasks |-> objs, next_id |-> nid[1], last_update |-> "user" ]

LoadFiles ==
  { NoFile, EmptyFile, GarbageFile }
    \cup { JsonFile(DocOf(ids, nid)) : ids \in DocTaskSeqs, nid \in NextIDArgs }

\* The Manager LoadTasks is called on: a new one, or one that holds a task.
LoadManagers ==
  { NewManager,
    [ tasks |-> << NewTask(1, <<"a">>, 1) >>, nextID |-> 2 ] }

InitLoad ==
  /\ \E m \in LoadManagers : tasks = m.tasks /\ nextID = m.nextID
  /\ disk \in LoadFiles
  /\ backup = NoFile
  /\ now = 1
  /\ lastOp = Op("init", 0, <<>>, "", None, NoErr, FALSE, None)
  /\ assigned = <<>>
  /\ freed = {}
  /\ faults = 0
  /\ backups = 0
  /\ run = NoRun
  /\ others = {}

NextLoad ==
  \/ LoadTasks
  \/ PersistentPreRun

SpecLoad == InitLoad /\ [][NextLoad]_vars

\* ------------------------------------------------------------ ListTasks alone
\* ListTasks applied to every collection of a bounded family: up to MaxListLen
\* tasks of a pool, in any order, and one collection of maxInsertion + 1 tasks.
PoolTask(id, title, completed, priority, dueDate, t) ==
  [ ID        |-> id,
    Title     |-> title,
    Completed |-> completed,
    DueDate   |-> dueDate,
    Priority  |-> priority,
    CreatedAt |-> t,
    UpdatedAt |-> t ]

ListPool ==
  { PoolTask(1, <<"a">>, FALSE, PriorityLow, None, 1),
    PoolTask(2, <<"B">>, TRUE, PriorityHigh, Some(1), 1),
    PoolTask(3, <<"a", "b">>, FALSE, PriorityMedium, Some(2), 2),
    PoolTask(4, <<"a">>, FALSE, PriorityHigh, None, 2),
    PoolTask(5, <<"b">>, TRUE, PriorityLow, Some(1), 1) }

\* Tasks 1 to maxInsertion + 1 as a storage document holds them: created one
\* after the other, with the priorities low, high, medium and none in turn,
\* every fifth completed, the first three with a due date.
BigList ==
  [ i \in 1 .. maxInsertion + 1 |->
      PoolTask(i, <<"a">>, i % 5 = 0,
               IF i % 4 = 1 THEN PriorityLow
               ELSE IF i % 4 = 2 THEN PriorityHigh
               ELSE IF i % 4 = 3 THEN PriorityMedium ELSE "",
               IF i <= 3 THEN Some(2 - (i % 2)) ELSE None,
               i - maxInsertion) ]

ListInputs == UNION { [1 .. n -> ListPool] : n \in 0 .. MaxListLen } \cup { BigList }

InitList ==
  /\ tasks \in ListInputs
  /\ nextID = maxInsertion + 2
  /\ disk = NoFile
  /\ backup = NoFile
  /\ now = 1
  /\ lastOp = Op("init", 0, <<>>, "", None, NoErr, FALSE, None)
  /\ assigned = <<>>
  /\ freed = {}
  /\ faults = 0
  /\ backups = 0
  /\ run = NoRun
  /\ others = {}

NextList == ListTasks

SpecList == InitList /\ [][NextList]_vars

\* ------------------------------------------------------------ BackupTasks
\* The Manager calls of a run that writes up to MaxBackups backups, from a
\* storage file that is missing, empty or written by the program.
BackupFiles == { NoFile, EmptyFile, JsonFile(DocWritten) }

InitBackup ==
  /\ tasks = NewManager.tasks
  /\ nextID = NewManager.nextID
  /\ disk \in BackupFiles
  /\ backup = NoFile
  /\ now = 1
  /\ lastOp = Op("init", 0, <<>>, "", None, NoErr, FALSE, None)
  /\ assigned = <<>>
  /\ freed = {}
  /\ faults = 0
  /\ backups = MaxBackups
  /\ run = NoRun
  /\ others = {}

NextBackup ==
  \/ PersistentPreRun
  \/ AddTask
  \/ CompleteTask
  \/ BackupTasks

SpecBackup == InitBackup /\ [][NextBackup]_vars

\* ------------------------------------------------------------ two processes
\* A second process of the program runs "todo add o" on the same storage path
\* while this one is between two calls: PersistentPreRun, then AddTask with
\* its SaveTasks.  It holds no lock, so nothing orders it with this process.
\* One such process runs between two loads of this one.
OtherTitle == <<"o">>

OtherAdd ==
  LET l == ManagerLoadTasks(NewManager, disk, TRUE)
      r == AddTaskOn(l.m, OtherTitle, "", None, now, now)
      s == ManagerSaveTasks(r.m, disk, TRUE, disk)
  IN  /\ others = {}
      /\ l.m.nextID <= MaxNextID
      /\ disk' = s.file
      /\ lastOp' = Op("other", 0, OtherTitle, "", None, s.err, TRUE, r.ret)
      /\ others' = others \cup { r.ret[1] }
      /\ UNCHANGED << tasks, nextID, backup, now, assigned, freed, faults,
                      backups, run >>

RaceFiles == { NoFile, JsonFile(DocStaleNextID) }

InitRace ==
  /\ tasks = NewManager.tasks
  /\ nextID = NewManager.nextID
  /\ disk \in RaceFiles
  /\ backup = NoFile
  /\ now = 1
  /\ lastOp = Op("init", 0, <<>>, "", None, NoErr, FALSE, None)
  /\ assigned = <<>>
  /\ freed = {}
  /\ faults = 0
  /\ backups = 0
  /\ run = NoRun
  /\ others = {}

NextRace ==
  \/ PersistentPreRun
  \/ OtherAdd
  \/ AddTask
  \/ CompleteTask

SpecRace == InitRace /\ [][NextRace]_vars

\* ------------------------------------------------------------ the commands
\* The program as the command line runs it: each process is started for one
\* command, PersistentPreRun loads the storage, and the command's handler makes
\* its Manager calls.  A handler other than ui makes one call that can change
\* something and returns; ui makes one call or more per menu choice until the
\* user leaves.
Issues(c) == run.cmd = c /\ ~run.done

\* addCmd: the priority flag is validated before AddTask is called.
CmdAdd ==
  /\ Issues("add")
  /\ AddTask
  /\ lastOp'.priority = "" \/ ValidatePriority(lastOp'.priority)

\* listCmd: GetStats with --stats, ListTasks without.
CmdList == Issues("list") /\ (ListTasks \/ GetStats)

\* completeCmd.
CmdComplete == Issues("complete") /\ CompleteTask

\* deleteCmd: GetTask, which ends the command when it fails or when the user
\* does not confirm, then DeleteTask with the id GetTask has found.
CmdDelete ==
  /\ Issues("delete")
  /\ \/ GetTask
     \/ DeleteTask /\ lastOp'.err \notin { ErrInvalidID, ErrTaskNotFound }

\* exportCmd: ListTasks, whose result goes to the writer of the format.
CmdExport == Issues("export") /\ ListTasks

\* backupCmd.
CmdBackup == Issues("backup") /\ BackupTasks

\* uiCmd: runInteractiveUI, one menu choice.
CmdUi ==
  /\ run.cmd = "ui"
  /\ \/ ListTasks
     \/ AddTask
     \/ CompleteTask
     \/ GetTask
     \/ DeleteTask
     \/ GetStats
     \/ BackupTasks

CmdFiles == { NoFile, JsonFile(DocWritten) }

InitCmd ==
  /\ tasks = NewManager.tasks
  /\ nextID = NewManager.nextID
  /\ disk \in CmdFiles
  /\ backup = NoFile
  /\ now = 1
  /\ lastOp = Op("init", 0, <<>>, "", None, NoErr, FALSE, None)
  /\ assigned = <<>>
  /\ freed = {}
  /\ faults = 0
  /\ backups = MaxBackups
  /\ run = NotStarted
  /\ others = {}

NextCmd ==
  \/ PersistentPreRun
  \/ CmdAdd
  \/ CmdList
  \/ CmdComplete
  \/ CmdDelete
  \/ CmdExport
  \/ CmdBackup
  \/ CmdUi

SpecCmd == InitCmd /\ [][NextCmd]_vars

\* ------------------------------------------------------------ I/O errors
\* The Manager calls of one process after its start, on a file system that
\* fails up to MaxFaults times in SaveTasks: the Manager holds what
\* PersistentPreRun has loaded from the storage file, at some time not before
\* the file was written.
FaultFiles == { NoFile, JsonFile(DocWritten) }

InitFault ==
  /\ disk \in FaultFiles
  /\ LET r == ManagerLoadTasks(NewManager, disk, TRUE)
     IN  /\ tasks = r.m.tasks
         /\ nextID = r.m.nextID
         /\ lastOp = Op("start", 0, <<>>, "", None, r.err, FALSE, None)
  /\ backup = NoFile
  /\ now \in 1 .. MaxTime
  /\ assigned = <<>>
  /\ freed = {}
  /\ faults = MaxFaults
  /\ backups = 0
  /\ run = NoRun
  /\ others = {}

NextFault ==
  \/ AddTask
  \/ CompleteTask
  \/ DeleteTask

SpecFault == InitFault /\ [][NextFault]_vars

\* ------------------------------------------------------------ properties
\* The step just taken is a call of op.
Called(op) == lastOp'.op = op

\* The step just taken is an AddTask that created a task (it got as far as
\* SaveTasks), whether or not the save worked.
Created == Called("add") /\ lastOp'.wrote

\* s consists of white space only.
IsBlank(s) == \A k \in 1 .. Len(s) : s[k] = " "

\* t is s without its leading and trailing white space.
IsTrimOf(t, s) ==
  \E i \in 1 .. Len(s) + 1, j \in 0 .. Len(s) :
    /\ t = SubSeq(s, i, j)
    /\ \A k \in 1 .. i - 1 : s[k] = " "
    /\ \A k \in j + 1 .. Len(s) : s[k] = " "
    /\ t # <<>> => t[1] # " " /\ t[Len(t)] # " "

\* The position of the task a lookup by id finds: the first with that id.
IsFirstWithID(ts, id, i) ==
  /\ i \in 1 .. Len(ts)
  /\ ts[i].ID = id
  /\ \A j \in 1 .. i - 1 : ts[j].ID # id

\* C1: the ids AddTask assigns on one Manager are strictly increasing and never
\* repeat, and an id freed by DeleteTask is never assigned again.
C1_MonotonicIds ==
  [][Created =>
       LET id == tasks'[Len(tasks')].ID
       IN  /\ \A k \in 1 .. Len(assigned) : assigned[k] < id
           /\ id \notin freed]_vars

\* C2: next_id is strictly greater than the id of every task in memory, and of
\* every task in a document written by SaveTasks.
C2_NextIDAboveEveryID ==
  /\ \A i \in 1 .. Len(tasks) : tasks[i].ID < nextID
  /\ (lastOp.wrote /\ lastOp.err = NoErr) =>
       \A i \in 1 .. Len(disk.doc.tasks) : disk.doc.tasks[i].id < disk.doc.next_id

\* C3: every task in memory has a positive id, no two tasks share an id, and no
\* operation changes the id of a task that already exists.
C3_IdsPositive == \A i \in 1 .. Len(tasks) : tasks[i].ID > 0

C3_IdsUnique ==
  \A i, j \in 1 .. Len(tasks) : i # j => tasks[i].ID # tasks[j].ID

\* The ids of the collection, in order, after a step: the same, or one more at
\* the end (AddTask), or one removed (DeleteTask), or a reloaded collection.
C3_IdsKept ==
  LET ids(ts) == [i \in 1 .. Len(ts) |-> ts[i].ID]
  IN  \/ Called("load") \/ Called("start")
      \/ ids(tasks') = ids(tasks)
      \/ Called("add") /\ SubSeq(ids(tasks'), 1, Len(tasks)) = ids(tasks)
      \/ Called("delete") /\ \E k \in 1 .. Len(tasks) :
                               ids(tasks') = RemoveAt(ids(tasks), k)

C3_IdsPositiveUniqueImmutable ==
  [](C3_IdsPositive /\ C3_IdsUnique) /\ [][C3_IdsKept]_vars

\* C4: a successful AddTask appends exactly one task and leaves the others as
\* they are; the task has id = next_id before the call, the trimmed title,
\* completed = false, the given priority or medium, the given due date or none;
\* next_id grows by exactly one.
C4_AddTaskAppendsOne ==
  [][(Called("add") /\ lastOp'.err = NoErr) =>
       /\ Len(tasks') = Len(tasks) + 1
       /\ SubSeq(tasks', 1, Len(tasks)) = tasks
       /\ LET new == tasks'[Len(tasks')]
          IN  /\ new.ID = nextID
              /\ IsTrimOf(new.Title, lastOp'.title)
              /\ new.Completed = FALSE
              /\ new.Priority = IF lastOp'.priority = "" THEN "medium"
                                ELSE lastOp'.priority
              /\ new.DueDate = lastOp'.due
              /\ lastOp'.ret = <<new>>
       /\ nextID' = nextID + 1]_vars

\* A task was added from a padded title and without a priority.
C4_Witness ==
  /\ lastOp.op = "add" /\ lastOp.err = NoErr
  /\ lastOp.title = <<" ", "B", " ">> /\ lastOp.priority = ""
  /\ Len(tasks) > 1
  /\ tasks[Len(tasks)].Title = <<"B">>

\* C5: AddTask with a title that is empty after trimming, or with a non-empty
\* priority outside low, medium, high, returns an error, creates no task, keeps
\* next_id and the storage file, and attempts no write.
C5_AddTaskRejects ==
  [][(/\ Called("add")
      /\ \/ IsBlank(lastOp'.title)
         \/ lastOp'.priority \notin { "", "low", "medium", "high" }) =>
       /\ lastOp'.err # NoErr
       /\ lastOp'.ret = None
       /\ ~lastOp'.wrote
       /\ UNCHANGED << tasks, nextID, disk >>]_vars

\* AddTask was called with the priority "urgent" on a collection with tasks.
C5_Witness ==
  /\ lastOp.op = "add" /\ lastOp.priority = "urgent"
  /\ lastOp.err = ErrInvalidPriority
  /\ tasks # <<>>

\* C6: CompleteTask on a task that is already completed fails with the
\* already-completed error, leaves that task's updated_at and the rest of the
\* collection as they are, and does not write to storage.
C6_CompleteTwiceRejected ==
  [][(/\ Called("complete")
      /\ \E i \in 1 .. Len(tasks) :
           IsFirstWithID(tasks, lastOp'.id, i) /\ tasks[i].Completed) =>
       /\ lastOp'.err = ErrAlreadyCompleted
       /\ lastOp'.ret = None
       /\ ~lastOp'.wrote
       /\ UNCHANGED << tasks, nextID, disk >>]_vars

\* CompleteTask was rejected for a task that was completed at an earlier time.
C6_Witness ==
  /\ lastOp.op = "complete" /\ lastOp.err = ErrAlreadyCompleted
  /\ \E i \in 1 .. Len(tasks) :
       /\ IsFirstWithID(tasks, lastOp.id, i)
       /\ tasks[i].Completed
       /\ tasks[i].UpdatedAt < now

\* The Manager operations C7 is about.
C7_Ops == { "add", "complete", "delete", "list", "stats", "get", "backup" }

\* C7: under AddTask, CompleteTask, DeleteTask, ListTasks, GetStats, GetTask
\* and BackupTasks a completed task stays completed while it is in the
\* collection, and only CompleteTask turns a pending task into a completed one.
\* k is the position DeleteTask removes, 0 when the step removes nothing.
C7_CompletedIsFinal ==
  [][lastOp'.op \in C7_Ops =>
       \E k \in 0 .. Len(tasks) :
         /\ k # 0 => Called("delete") /\ Len(tasks') = Len(tasks) - 1
         /\ \A i \in (1 .. Len(tasks)) \ { k } :
              LET i2 == IF k # 0 /\ i > k THEN i - 1 ELSE i
              IN  /\ i2 <= Len(tasks')
                  /\ tasks'[i2].ID = tasks[i].ID
                  /\ tasks[i].Completed => tasks'[i2].Completed
                  /\ ~Called("complete") =>
                       (tasks'[i2].Completed => tasks[i].Completed)]_vars

\* A task completed after its creation is still in the collection, completed,
\* after a later successful AddTask or DeleteTask.
C7_Witness ==
  /\ lastOp.op \in { "add", "delete" } /\ lastOp.err = NoErr
  /\ \E i \in 1 .. Len(tasks) :
       tasks[i].Completed /\ tasks[i].UpdatedAt > tasks[i].CreatedAt

\* C8: a successful DeleteTask removes exactly the task with that id, keeps the
\* other tasks and their order, keeps next_id, and returns the deleted task as
\* it was; a following AddTask receives next_id, which is not a deleted id.
C8_DeleteTaskRemovesOne ==
  [][/\ (Called("delete") /\ lastOp'.err = NoErr) =>
          \E k \in 1 .. Len(tasks) :
            /\ IsFirstWithID(tasks, lastOp'.id, k)
            /\ tasks' = RemoveAt(tasks, k)
            /\ nextID' = nextID
            /\ lastOp'.ret = <<tasks[k]>>
     /\ Created =>
          /\ tasks'[Len(tasks')].ID = nextID
          /\ tasks'[Len(tasks')].ID \notin freed]_vars

\* C9: GetTask, CompleteTask and DeleteTask with id <= 0 fail with InvalidID,
\* and with a positive id that no task has fail with NotFound; the collection,
\* next_id and the storage file stay as they are.
C9_LookupFailures ==
  [][lastOp'.op \in { "get", "complete", "delete" } =>
       LET id == lastOp'.id
           frame == /\ lastOp'.ret = None
                    /\ ~lastOp'.wrote
                    /\ UNCHANGED << tasks, nextID, disk >>
       IN  /\ id <= 0 => lastOp'.err = ErrInvalidID /\ frame
           /\ (id > 0 /\ \A i \in 1 .. Len(tasks) : tasks[i].ID # id) =>
                lastOp'.err = ErrTaskNotFound /\ frame]_vars

\* DeleteTask did not find a positive id in a collection that has tasks.
C9_Witness ==
  /\ lastOp.op = "delete" /\ lastOp.err = ErrTaskNotFound
  /\ lastOp.id > 0
  /\ tasks # <<>>

\* C10: ListTasks, for every filter and sort order, and GetStats do not write
\* to storage and leave the collection, its order and next_id as they are.
C10_ReadOnly ==
  [][(Called("list") \/ Called("stats")) =>
       /\ ~lastOp'.wrote
       /\ UNCHANGED << tasks, nextID, disk, backup >>]_vars

\* ListTasks was called on a collection that a sort order would reorder.
C10_Witness ==
  /\ lastOp.op = "list"
  /\ \E sortBy \in SortByArgs : tasks \notin sortTasks(tasks, sortBy)

\* The operations that rewrite the storage file.
Mutations == { "add", "complete", "delete" }

\* The JSON object obj holds the fields of task t: every key with the value of
\* the field, and the key due_date exactly when the task has a due date.
ObjHoldsTask(obj, t) ==
  /\ DOMAIN obj = { "id", "title", "completed", "priority", "created_at", "updated_at" }
                    \cup (IF t.DueDate = None THEN {} ELSE { "due_date" })
  /\ obj["id"] = t.ID
  /\ obj["title"] = t.Title
  /\ obj["completed"] = t.Completed
  /\ obj["priority"] = t.Priority
  /\ obj["created_at"] = t.CreatedAt
  /\ obj["updated_at"] = t.UpdatedAt
  /\ t.DueDate # None => obj["due_date"] = t.DueDate[1]

\* The file holds the collection ts, in order, and the watermark nid.
FileHolds(file, ts, nid) ==
  /\ file.kind = "json"
  /\ { "tasks", "next_id" } \subseteq DOMAIN file.doc
  /\ Len(file.doc.tasks) = Len(ts)
  /\ \A i \in 1 .. Len(ts) : ObjHoldsTask(file.doc.tasks[i], ts[i])
  /\ file.doc.next_id = nid

\* The storage file holds the collection and next_id of the Manager.
InSync == FileHolds(disk, tasks, nextID)

\* The step just taken is a call of op whose SaveTasks failed.
SaveFailed(op) == Called(op) /\ lastOp'.wrote /\ lastOp'.err = ErrIO

\* C11: after every successful AddTask, CompleteTask or DeleteTask the storage
\* file holds the tasks the Manager holds in memory, in the same order with the
\* same field values, and the same next_id.
C11_DiskEqualsMemory ==
  (lastOp.op \in Mutations /\ lastOp.err = NoErr) => FileHolds(disk, tasks, nextID)

\* CompleteTask succeeded at a later time than the task was created, on a
\* collection that has a task with a due date and one without.
C11_Witness ==
  /\ lastOp.op = "complete" /\ lastOp.err = NoErr
  /\ lastOp.ret[1].UpdatedAt > lastOp.ret[1].CreatedAt
  /\ \E i, j \in 1 .. Len(tasks) : tasks[i].DueDate = None /\ tasks[j].DueDate # None

\* C12: SaveTasks followed by LoadTasks yields the collection that was saved:
\* the same tasks in the same order with the same fields, an absent due date
\* still absent, and the same next_id.  Stated for the collection of every
\* state, and for the LoadTasks call that follows a mutation that saved.
C12_SavedThenLoaded ==
  LET saved == ManagerSaveTasks(manager, disk, TRUE, disk)
      loaded == ManagerLoadTasks(NewManager, saved.file, TRUE)
  IN  /\ saved.err = NoErr
      /\ loaded.err = NoErr
      /\ loaded.m.tasks = tasks
      /\ loaded.m.nextID = nextID

C12_LoadAfterSave ==
  (lastOp.op \in Mutations /\ lastOp.err = NoErr /\ Called("load")) =>
    /\ lastOp'.err = NoErr
    /\ tasks' = tasks
    /\ nextID' = nextID

C12_RoundTrip == []C12_SavedThenLoaded /\ [][C12_LoadAfterSave]_vars

\* LoadTasks read back a collection that a CompleteTask had saved: a task was
\* updated after its creation, one task has a due date and one has none.
C12_Witness ==
  /\ lastOp.op = "load" /\ lastOp.err = NoErr
  /\ FileHolds(disk, tasks, nextID)
  /\ \E i \in 1 .. Len(tasks) : tasks[i].UpdatedAt > tasks[i].CreatedAt
  /\ \E i, j \in 1 .. Len(tasks) : tasks[i].DueDate = None /\ tasks[j].DueDate # None

\* The collection has just been loaded from a file that is absent or empty.
LoadedFromNothing ==
  /\ lastOp.op \in { "load", "start" }
  /\ disk.kind \in { "absent", "empty" }

\* C13: LoadTasks on a file that does not exist or has zero length succeeds
\* with an empty collection and next_id = 1; an AddTask without a priority that
\* follows yields a task with id 1 and priority medium, and GetStats then
\* reports total = 1.
C13_FirstRun ==
  [][/\ (Called("load") /\ disk.kind \in { "absent", "empty" }) =>
          lastOp'.err = NoErr /\ tasks' = <<>> /\ nextID' = 1
     /\ (LoadedFromNothing /\ Called("add") /\ lastOp'.priority = ""
           /\ ~IsBlank(lastOp'.title)) =>
          /\ lastOp'.err = NoErr
          /\ lastOp'.ret # None
          /\ lastOp'.ret[1].ID = 1
          /\ lastOp'.ret[1].Priority = "medium"
          /\ GetStatsOn(manager', now').total = 1]_vars

\* LoadTasks succeeded on a zero-length file and AddTask can follow.
C13_Witness ==
  /\ lastOp.op = "load" /\ lastOp.err = NoErr
  /\ disk.kind = "empty"
  /\ tasks = <<>> /\ nextID = 1 /\ nextID < MaxNextID

\* The ids of the tasks of a document, and the next_id json.Unmarshal leaves in
\* the TaskList: 0 when the key is missing.
DocIDSet(doc) == { Field(doc.tasks[i], "id", 0) : i \in 1 .. Len(doc.tasks) }

ParsedNextID(doc) == IF "next_id" \in DOMAIN doc THEN doc["next_id"] ELSE 0

SetMax(S) == CHOOSE x \in S : \A y \in S : y <= x

\* C14, as claimed: when the parsed next_id is unset or zero LoadTasks returns
\* 1 + the highest task id of the document, or 1 when it has no tasks; a
\* non-zero next_id is returned as parsed.
C14_NextIDRepair ==
  [][((Called("load") \/ Called("start")) /\ disk.kind = "json") =>
       LET ids == DocIDSet(disk.doc)
           parsed == ParsedNextID(disk.doc)
       IN  /\ lastOp'.err = NoErr
           /\ nextID' = IF parsed # 0 THEN parsed
                        ELSE IF ids = {} THEN 1
                        ELSE 1 + SetMax(ids)]_vars

\* C14, amended: ... or 1 when the document has no tasks or every task id is
\* negative.
C14_NextIDRepairAtLeastOne ==
  [][((Called("load") \/ Called("start")) /\ disk.kind = "json") =>
       LET ids == DocIDSet(disk.doc)
           parsed == ParsedNextID(disk.doc)
       IN  /\ lastOp'.err = NoErr
           /\ nextID' = IF parsed # 0 THEN parsed
                        ELSE IF ids = {} \/ SetMax(ids) < 0 THEN 1
                        ELSE 1 + SetMax(ids)]_vars

\* LoadTasks recomputed next_id for a document without next_id whose two tasks
\* have the ids 1 and 2 in descending order.
C14_Witness ==
  /\ lastOp.op = "load" /\ lastOp.err = NoErr
  /\ disk.kind = "json" /\ "next_id" \notin DOMAIN disk.doc
  /\ Len(tasks) = 2 /\ tasks[1].ID = 2 /\ tasks[2].ID = 1
  /\ nextID = 3

\* C15: LoadTasks on a non-empty file that does not parse returns the parse
\* error to its caller and leaves the collection and next_id of the Manager as
\* they were.
C15_CorruptFileKeepsMemory ==
  [][(Called("load") /\ disk.kind = "garbage") =>
       /\ lastOp'.err = ErrParse
       /\ UNCHANGED << tasks, nextID, disk >>]_vars

\* LoadTasks failed to parse the file while the Manager held a task.
C15_Witness ==
  /\ lastOp.op = "load" /\ lastOp.err = ErrParse
  /\ disk.kind = "garbage"
  /\ tasks # <<>> /\ nextID > 1

\* Every FilterOptions value over the filters and sort orders used here,
\* "title" being a sortBy value the switch of sortTasks does not know.
AllFilters ==
  [ ShowCompleted : BOOLEAN,
    ShowPending   : BOOLEAN,
    Priority      : { "", "low", "medium", "high" },
    Search        : { <<>>, <<"b">>, <<"B">> },
    SortBy        : SortByArgs \cup { "title" } ]

\* c and d are the same letter, whatever their case.
SameLetter(c, d) == c = d \/ { c, d } = { "a", "A" } \/ { c, d } = { "b", "B" }

\* sub occurs in s, the case of the letters left aside.
ContainsFold(s, sub) ==
  \E k \in 0 .. Len(s) - Len(sub) :
    \A i \in 1 .. Len(sub) : SameLetter(s[k + i], sub[i])

\* The task t passes every active filter of f.
Matches(t, f) ==
  /\ (f.ShowCompleted /\ ~f.ShowPending) => t.Completed
  /\ (f.ShowPending /\ ~f.ShowCompleted) => ~t.Completed
  /\ f.Priority # "" => t.Priority = f.Priority
  /\ f.Search # <<>> => ContainsFold(t.Title, f.Search)

\* How often x occurs in the sequence seq.
Occurrences(seq, x) == Cardinality({ i \in 1 .. Len(seq) : seq[i] = x })

\* C16: ListTasks returns exactly the tasks of the collection that pass all
\* active filters, each as often as the collection holds it: the completed ones
\* or the pending ones when exactly one status flag is set, all when both or
\* none are set, those of the priority asked for, those whose title contains
\* the search text in any case.
C16_ListFilters ==
  \A f \in AllFilters : \A r \in ListTasksOn(manager, f) :
    \A x \in { tasks[i] : i \in 1 .. Len(tasks) } \cup { r[i] : i \in 1 .. Len(r) } :
      Occurrences(r, x) = IF Matches(x, f) THEN Occurrences(tasks, x) ELSE 0

\* ListTasks was called on a collection with a completed and a pending task,
\* one of them with a capital letter in its title.
C16_Witness ==
  /\ lastOp.op = "list"
  /\ \E i, j \in 1 .. Len(tasks) : tasks[i].Completed /\ ~tasks[j].Completed
  /\ \E i \in 1 .. Len(tasks) : tasks[i].Title = <<"B">>

\* The priority p comes before the priority q in the order by priority.
PriorityBefore(p, q) ==
  <<p, q>> \in { <<"high", "medium">>, <<"high", "low">>, <<"medium", "low">> }

\* C17: ListTasks with sortBy = "priority" returns every high task before
\* every medium one and every medium one before every low one, the tasks of
\* one priority in the order the stored collection has them, for a collection
\* of any size; tasks 1, 2, 3 added as low, high, medium come out as 2, 3, 1.
C17_PrioritySortStable ==
  \A f \in { g \in AllFilters : g.SortBy = "priority" } :
    \A r \in ListTasksOn(manager, f) :
      /\ \A i, j \in 1 .. Len(r) :
           i < j => ~PriorityBefore(r[j].Priority, r[i].Priority)
      /\ \A p \in { "low", "medium", "high" } :
           SelectSeq(r, LAMBDA t : t.Priority = p)
             = SelectSeq(tasks, LAMBDA t : Matches(t, f) /\ t.Priority = p)
      /\ ( /\ [i \in 1 .. Len(tasks) |-> <<tasks[i].ID, tasks[i].Priority>>]
               = << <<1, "low">>, <<2, "high">>, <<3, "medium">> >>
           /\ f.Priority = "" /\ f.Search = <<>>
           /\ f.ShowCompleted = f.ShowPending )
           => [i \in 1 .. Len(r) |-> r[i].ID] = <<2, 3, 1>>

\* C18: ListTasks with sortBy = "due" returns the dated tasks in ascending
\* order of due date, every task without a due date after all dated ones, and
\* the undated ones in ascending order of id; a sortBy value other than
\* priority, due and created, the empty one included, yields ascending ids.
C18_DueAndDefaultOrder ==
  \A f \in { g \in AllFilters : g.SortBy \notin { "priority", "created" } } :
  \A r \in ListTasksOn(manager, f) :
    \A i, j \in 1 .. Len(r) :
      i < j =>
        /\ f.SortBy = "due" =>
             /\ r[i].DueDate = None => r[j].DueDate = None
             /\ (r[i].DueDate # None /\ r[j].DueDate # None) =>
                  r[i].DueDate[1] <= r[j].DueDate[1]
             /\ (r[i].DueDate = None /\ r[j].DueDate = None) => r[i].ID <= r[j].ID
        /\ f.SortBy \notin { "priority", "due", "created" } => r[i].ID <= r[j].ID

\* ListTasks was called on a collection that stores an undated task before a
\* dated one and a higher id before a lower one.
C18_Witness ==
  /\ lastOp.op = "list"
  /\ \E i, j, k \in 1 .. Len(tasks) :
       /\ i < j /\ j < k
       /\ tasks[i].DueDate = None /\ tasks[j].DueDate = None
       /\ tasks[k].DueDate # None
       /\ tasks[i].ID > tasks[j].ID

\* C19: for every collection the Manager can hold, also one loaded from a
\* parseable document, GetStats counts the whole collection with
\* completed + pending = total, high + medium + low = total and
\* overdue <= pending.
C19_StatsConsistent ==
  LET stats == GetStatsOn(manager, now)
  IN  /\ stats.total = Len(tasks)
      /\ stats.completed + stats.pending = stats.total
      /\ stats.high + stats.medium + stats.low = stats.total
      /\ stats.overdue <= stats.pending

\* C20: a task is overdue exactly when it has a due date, is not completed
\* and the due date is before the current time; GetStats counts as overdue
\* exactly these tasks, so never a completed one.
C20_OverdueIffPendingAndPast ==
  LET late == { i \in 1 .. Len(tasks) :
                  /\ tasks[i].DueDate # None
                  /\ ~tasks[i].Completed
                  /\ tasks[i].DueDate[1] < now }
  IN  /\ \A i \in 1 .. Len(tasks) : IsOverdue(tasks[i], now) <=> i \in late
      /\ GetStatsOn(manager, now).overdue = Cardinality(late)

\* GetStats was called while a completed task had a due date in the past.
C20_Witness ==
  /\ lastOp.op = "stats"
  /\ \E i \in 1 .. Len(tasks) :
       /\ tasks[i].Completed
       /\ tasks[i].DueDate # None
       /\ tasks[i].DueDate[1] < now

\* No task was updated before it was created.
C21_StampsOrdered ==
  \A i \in 1 .. Len(tasks) : tasks[i].UpdatedAt >= tasks[i].CreatedAt

\* The stamps of the tasks a step keeps, and of the task AddTask creates.
\* k is the position DeleteTask removes, 0 when the step removes nothing.
C21_StampsKept ==
  /\ lastOp'.op \in C7_Ops =>
       \E k \in 0 .. Len(tasks) :
         /\ k # 0 => Called("delete") /\ Len(tasks') = Len(tasks) - 1
         /\ \A i \in (1 .. Len(tasks)) \ { k } :
              LET i2 == IF k # 0 /\ i > k THEN i - 1 ELSE i
              IN  /\ i2 <= Len(tasks')
                  /\ tasks'[i2].ID = tasks[i].ID
                  /\ tasks'[i2].CreatedAt = tasks[i].CreatedAt
                  /\ tasks'[i2].UpdatedAt >= tasks[i].UpdatedAt
                  /\ ~Called("complete") =>
                       tasks'[i2].UpdatedAt = tasks[i].UpdatedAt
  /\ Created =>
       LET new == tasks'[Len(tasks')]
       IN  /\ new.CreatedAt = now
           /\ new.UpdatedAt >= new.CreatedAt
           /\ (lastOp'.priority = "" /\ lastOp'.due = None) =>
                new.UpdatedAt = new.CreatedAt

C26_CorruptStartThenOverwrite ==
  [][/\ (Called("start") /\ lastOp'.err # NoErr) =>
          /\ tasks' = <<>>
          /\ nextID' = 1
          /\ disk' = disk
     /\ (/\ disk.kind = "garbage"
         /\ lastOp'.op \in Mutations
         /\ lastOp'.err = NoErr) =>
          /\ disk' # disk
          /\ FileHolds(disk', tasks', nextID')
     /\ (/\ lastOp.op = "start" /\ lastOp.err # NoErr
         /\ Called("add") /\ lastOp'.err = NoErr) =>
          /\ lastOp'.ret[1].ID = 1
          /\ Len(disk'.doc.tasks) = 1
          /\ ObjHoldsTask(disk'.doc.tasks[1], lastOp'.ret[1])]_vars

\* The start has failed on an unreadable file: the file is still there, the
\* collection is empty, and the process goes on.
C26_Witness ==
  /\ lastOp.op = "start" /\ lastOp.err = ErrParse
  /\ disk = GarbageFile
  /\ tasks = <<>> /\ nextID = 1

\* C22: BackupTasks fails with the no-file error and leaves the backup file as
\* it is (missing) while the storage file does not exist; when the storage file
\* exists it succeeds and the backup file then holds what the storage file
\* holds, whatever an earlier backup held; in both cases the storage file, the
\* collection and next_id are as before.
C22_BackupCopiesStorage ==
  [][Called("backup") =>
       /\ ~FileExists(disk) =>
            /\ lastOp'.err = ErrNoFile
            /\ backup' = backup
            /\ ~FileExists(backup')
       /\ FileExists(disk) =>
            /\ lastOp'.err = NoErr
            /\ backup' = disk
       /\ disk' = disk
       /\ tasks' = tasks
       /\ nextID' = nextID]_vars

\* The second backup of the run has replaced the first by a document that
\* records a completed task.
C22_Witness ==
  /\ lastOp.op = "backup" /\ lastOp.err = NoErr
  /\ backups = MaxBackups - 2
  /\ backup = disk
  /\ FileHolds(disk, tasks, nextID)
  /\ assigned # <<>>
  /\ \E i \in 1 .. Len(tasks) : tasks[i].Completed /\ tasks[i].UpdatedAt > 1

\* C23: when a second process has loaded the document this process holds,
\* added a task and saved, the next mutation this process saves replaces the
\* whole file by its own collection: the task the second process added is not
\* in the file any more, and when the mutation is an AddTask its task has the
\* id the second process gave to the lost one.
C23_LostUpdate ==
  [][(/\ lastOp.op = "other" /\ lastOp.err = NoErr
      /\ FileHolds(disk, Append(tasks, lastOp.ret[1]), nextID + 1)
      /\ lastOp'.op \in Mutations /\ lastOp'.err = NoErr) =>
       /\ FileHolds(disk', tasks', nextID')
       /\ \A i \in 1 .. Len(disk'.doc.tasks) :
            ~ObjHoldsTask(disk'.doc.tasks[i], lastOp.ret[1])
       /\ Called("add") =>
            /\ lastOp'.ret[1].ID = lastOp.ret[1].ID
            /\ lastOp'.ret[1].Title # lastOp.ret[1].Title]_vars

\* This process has added a task and saved; a second process had given the
\* same id to a task of its own, which the file does not hold any more.
C23_Witness ==
  /\ lastOp.op = "add" /\ lastOp.err = NoErr
  /\ FileHolds(disk, tasks, nextID)
  /\ \E x \in others :
       /\ x.ID = lastOp.ret[1].ID
       /\ x.Title # lastOp.ret[1].Title
       /\ \A i \in 1 .. Len(disk.doc.tasks) : ~ObjHoldsTask(disk.doc.tasks[i], x)

\* C24: the process of one command has loaded the storage at most once and
\* has called SaveTasks at most once.
C24_OneLoadOneSave ==
  /\ run.loads <= 1
  /\ run.saves <= 1

\* What a failed AddTask or DeleteTask returns and keeps in memory: the error
\* and no task; after AddTask the collection with the new task at its end and
\* next_id advanced by one, after DeleteTask the collection without the task.
C25_MutationKept ==
  /\ lastOp'.ret = None
  /\ Called("add") =>
       /\ Len(tasks') = Len(tasks) + 1
       /\ SubSeq(tasks', 1, Len(tasks)) = tasks
       /\ tasks'[Len(tasks')].ID = nextID
       /\ IsTrimOf(tasks'[Len(tasks')].Title, lastOp'.title)
       /\ nextID' = nextID + 1
  /\ Called("delete") =>
       /\ \E k \in 1 .. Len(tasks) :
            IsFirstWithID(tasks, lastOp'.id, k) /\ tasks' = RemoveAt(tasks, k)
       /\ nextID' = nextID

\* C25 as claimed: when SaveTasks fails in AddTask or DeleteTask the call
\* returns the error and no task and keeps its change in memory, the storage
\* file is what it was before the call, and from then on the file differs
\* from memory in every state of the process.
C25_FailedSaveKeepsFile ==
  /\ [](run.failed \in { "add", "delete" } => ~InSync)
  /\ [][(SaveFailed("add") \/ SaveFailed("delete")) =>
          /\ C25_MutationKept
          /\ disk' = disk]_vars

\* C25, amended: when SaveTasks fails in AddTask or DeleteTask the call
\* returns the error and no task and keeps its change in memory; the storage
\* file is what it was before the call, or the empty or partial file the broken
\* write has left; the file then differs from memory, and goes on to differ
\* until a later SaveTasks of the process succeeds.
C25_FailedSaveKeepsMutation ==
  [][/\ (SaveFailed("add") \/ SaveFailed("delete")) =>
          /\ C25_MutationKept
          /\ disk' = disk \/ disk'.kind \in { "empty", "garbage" }
          /\ ~InSync'
     /\ (/\ run.failed \in { "add", "delete" }
         /\ ~InSync
         /\ ~(lastOp'.wrote /\ lastOp'.err = NoErr)
         /\ lastOp'.op \notin { "start", "load" }) =>
          ~InSync']_vars

\* A DeleteTask has failed in SaveTasks: the task is gone from memory and the
\* file still holds both tasks.
C25_Witness ==
  /\ lastOp.op = "delete" /\ lastOp.err = ErrIO
  /\ run.failed = "delete"
  /\ Len(tasks) = 1
  /\ disk = JsonFile(DocWritten)

\* What a failed CompleteTask returns and keeps in memory: the error and no
\* task, and the task completed with updated_at set to the time of the call.
C27_CompletionKept ==
  /\ lastOp'.ret = None
  /\ \E k \in 1 .. Len(tasks) :
       /\ IsFirstWithID(tasks, lastOp'.id, k)
       /\ ~tasks[k].Completed
       /\ tasks' = [tasks EXCEPT ![k].Completed = TRUE, ![k].UpdatedAt = now]
  /\ nextID' = nextID

\* The step just taken is a CompleteTask on the id whose completion has just
\* failed in SaveTasks.
C27_Retry ==
  /\ lastOp.op = "complete" /\ lastOp.wrote /\ lastOp.err = ErrIO
  /\ Called("complete")
  /\ lastOp'.id = lastOp.id

\* C27 as claimed: when SaveTasks fails in CompleteTask on a task the storage
\* file holds, the call returns the error, the task is completed in memory
\* with a new updated_at, and the storage file is what it was, so it records
\* the task as pending; CompleteTask on the same id again is rejected as
\* already completed and writes nothing.
C27_FailedCompleteStaysPending ==
  [][/\ (SaveFailed("complete") /\ InSync) =>
          /\ C27_CompletionKept
          /\ disk' = disk
     /\ C27_Retry =>
          /\ lastOp'.err = ErrAlreadyCompleted
          /\ ~lastOp'.wrote
          /\ UNCHANGED << tasks, nextID, disk >>]_vars

\* C27, amended: when SaveTasks fails in CompleteTask on a task the storage
\* file holds, the call returns the error and the task is completed in memory
\* with a new updated_at; the storage file is what it was, recording the task
\* as pending, or the empty or partial file the broken write has left, and in
\* no case records the completion; CompleteTask on the same id again is
\* rejected as already completed and writes nothing.
C27_FailedCompleteNotOnDisk ==
  [][/\ (SaveFailed("complete") /\ InSync) =>
          /\ C27_CompletionKept
          /\ disk' = disk \/ disk'.kind \in { "empty", "garbage" }
          /\ ~InSync'
     /\ C27_Retry =>
          /\ lastOp'.err = ErrAlreadyCompleted
          /\ ~lastOp'.wrote
          /\ UNCHANGED << tasks, nextID, disk >>
          /\ ~InSync']_vars

\* CompleteTask has been rejected as already completed for a task whose
\* completion failed in SaveTasks: it is completed in memory, stamped after its
\* creation, and pending in the file.
C27_Witness ==
  /\ lastOp.op = "complete" /\ lastOp.err = ErrAlreadyCompleted
  /\ run.failed = "complete"
  /\ disk = JsonFile(DocWritten)
  /\ lastOp.id = 1
  /\ tasks[1].Completed /\ tasks[1].UpdatedAt > tasks[1].CreatedAt
  /\ ~disk.doc.tasks[1].completed

====
